---- MODULE Spec2Model ----
(***************************************************************************)
(* The App component of src/App.jsx as a state machine: the React state    *)
(* (recording, transcript, summary, actionItems, status), the two refs     *)
(* (mediaRecorderRef, chunksRef), and the asynchronous work in flight:     *)
(* startRecording calls awaiting getUserMedia, the MediaRecorder objects   *)
(* with their pending events, and the three kinds of fetch requests.       *)
(* Every action is one run of a handler up to its next await.              *)
(***************************************************************************)
EXTENDS Integers, Sequences, FiniteSets, TLC

VARIABLES
    recording,         \* useState(false)                       App.jsx:4
    transcript,        \* useState('')                          App.jsx:5
    summary,           \* useState('')                          App.jsx:6
    actionItems,       \* useState([])                          App.jsx:7
    status,            \* useState('idle')                      App.jsx:8
    mediaRecorderRef,  \* useRef(null): 0 is null, else the index of a recorder
    chunksRef,         \* useRef([]): the one shared chunk buffer
    pendingMic,        \* startRecording calls suspended at await getUserMedia
    streams,           \* the streams getUserMedia resolved with, by acquisition
    recorders,         \* the MediaRecorder built on each stream, by acquisition
    saves,             \* save-transcript requests in flight
    summaries,         \* summarize requests in flight
    commands,          \* how many commands the user has issued
    delivered          \* how many dataavailable events were delivered

vars == << recording, transcript, summary, actionItems, status, mediaRecorderRef,
           chunksRef, pendingMic, streams, recorders, saves, summaries, commands, delivered >>

(***************************************************************************)
(* Bounds of the model.                                                    *)
(***************************************************************************)
MaxCommands == 4    \* commands (Record, Stop, Save, Summarize) the user issues
MaxChunks == 1      \* dataavailable events the recorders deliver

\* the sizes e.data.size of the blobs a dataavailable event carries
ChunkSizes == {0, 5}

(***************************************************************************)
(* Text values.  JavaScript strings are TLA+ strings, + is \o, and the     *)
(* truthiness of a string is its being non-empty.                          *)
(***************************************************************************)
Truthy(s) == s # ""

\* e.data && e.data.size > 0
ChunkAccepted(size) == size > 0

\* the text the transcription service returns for the recording of recorder i
TextOf(i) == "text#" \o ToString(i)

\* The JSON bodies /upload-audio answers with: the transcription field holds a
\* text, holds the empty string, or is absent (any other shape).
UploadBodies(i) ==
    { [has |-> TRUE,  transcription |-> TextOf(i), raw |-> "{\"transcription\":\"" \o TextOf(i) \o "\"}"],
      [has |-> TRUE,  transcription |-> "",        raw |-> "{\"transcription\":\"\"}"],
      [has |-> FALSE, transcription |-> "",        raw |-> "{\"unexpected\":\"shape\"}"] }

\* JSON.stringify(json)
Stringify(json) == json.raw

\* json.transcription || JSON.stringify(json)
TranscriptOf(json) ==
    IF json.has /\ Truthy(json.transcription) THEN json.transcription ELSE Stringify(json)

\* new Blob(chunksRef.current): the parts in order
Blob(chunks) == chunks

RECURSIVE PayloadSize(_)
PayloadSize(blob) ==
    IF blob = << >> THEN 0 ELSE Head(blob).size + PayloadSize(Tail(blob))

NoRecorder == [state |-> "none", stopPending |-> FALSE, events |-> << >>,
               built |-> FALSE, blob |-> << >>, upload |-> "none"]

NewRecorder == [NoRecorder EXCEPT !.state = "inactive"]

Init ==
    /\ recording = FALSE
    /\ transcript = ""
    /\ summary = ""
    /\ actionItems = << >>
    /\ status = "idle"
    /\ mediaRecorderRef = 0
    /\ chunksRef = << >>
    /\ pendingMic = 0
    /\ streams = << >>
    /\ recorders = << >>
    /\ saves = {}
    /\ summaries = {}
    /\ commands = 0
    /\ delivered = 0

(***************************************************************************)
(* Record button: startRecording up to await getUserMedia.                 *)
(***************************************************************************)
\* the Record button enabled only in the initial status
RecordEnabled_IdleOnly == ~recording /\ status = "idle"

RecordEnabled == ~recording

\* startRecording dropping the requests in flight
StartRecording_Cancels ==
    /\ RecordEnabled
    /\ commands < MaxCommands
    /\ transcript' = ""
    /\ status' = "requesting_mic"
    /\ pendingMic' = pendingMic + 1
    /\ commands' = commands + 1
    /\ saves' = {}
    /\ summaries' = {}
    /\ UNCHANGED << recording, summary, actionItems, mediaRecorderRef, chunksRef,
                    streams, recorders, delivered >>

StartRecording ==
    /\ RecordEnabled
    /\ commands < MaxCommands
    /\ transcript' = ""
    /\ status' = "requesting_mic"
    /\ pendingMic' = pendingMic + 1
    /\ commands' = commands + 1
    /\ UNCHANGED << recording, summary, actionItems, mediaRecorderRef, chunksRef,
                    streams, recorders, saves, summaries, delivered >>

MicErrorText == "Microphone access denied or not available: " \o "err"

\* the catch block of startRecording
StartFailed ==
    /\ status' = "mic_error"
    /\ transcript' = MicErrorText

\* getUserMedia rejects
MicDenied ==
    /\ pendingMic > 0
    /\ pendingMic' = pendingMic - 1
    /\ StartFailed
    /\ UNCHANGED << recording, summary, actionItems, mediaRecorderRef, chunksRef,
                    streams, recorders, saves, summaries, commands, delivered >>

LiveStream == [live |-> TRUE, releases |-> 0]

\* getUserMedia resolves and the rest of the try block runs to its end
MicGranted ==
    /\ pendingMic > 0
    /\ pendingMic' = pendingMic - 1
    /\ streams' = Append(streams, LiveStream)
    /\ recorders' = Append(recorders, [NewRecorder EXCEPT !.state = "recording"])
    /\ mediaRecorderRef' = Len(recorders) + 1
    /\ chunksRef' = << >>
    /\ recording' = TRUE
    /\ status' = "recording"
    /\ UNCHANGED << transcript, summary, actionItems, saves, summaries, commands, delivered >>

\* getUserMedia resolves and new MediaRecorder(stream) throws
RecorderCtorThrows ==
    /\ pendingMic > 0
    /\ pendingMic' = pendingMic - 1
    /\ streams' = Append(streams, LiveStream)
    /\ recorders' = Append(recorders, NoRecorder)
    /\ StartFailed
    /\ UNCHANGED << recording, summary, actionItems, mediaRecorderRef, chunksRef,
                    saves, summaries, commands, delivered >>

\* getUserMedia resolves, the recorder is stored, and mr.start() throws
RecorderStartThrows ==
    /\ pendingMic > 0
    /\ pendingMic' = pendingMic - 1
    /\ streams' = Append(streams, LiveStream)
    /\ recorders' = Append(recorders, NewRecorder)
    /\ mediaRecorderRef' = Len(recorders) + 1
    /\ chunksRef' = << >>
    /\ StartFailed
    /\ UNCHANGED << recording, summary, actionItems, saves, summaries, commands, delivered >>

(***************************************************************************)
(* The recorder's events.  A recorder delivers dataavailable events while  *)
(* it records and, after stop(), until its stop event.                     *)
(***************************************************************************)
DataAvailable(i, size) ==
    /\ recorders[i].state = "recording" \/ recorders[i].stopPending
    /\ delivered < MaxChunks
    /\ delivered' = delivered + 1
    /\ LET chunk == [rec |-> i, seq |-> Len(recorders[i].events) + 1, size |-> size]
       IN /\ recorders' = [recorders EXCEPT ![i].events = Append(@, chunk)]
          /\ chunksRef' = IF ChunkAccepted(size) THEN Append(chunksRef, chunk) ELSE chunksRef
    /\ UNCHANGED << recording, transcript, summary, actionItems, status,
                    mediaRecorderRef, pendingMic, streams, saves, summaries, commands >>

\* mr.onstop up to await fetch
OnStop(i) ==
    /\ recorders[i].stopPending
    /\ status' = "uploading"
    /\ recorders' = [recorders EXCEPT ![i].stopPending = FALSE,
                                      ![i].built = TRUE,
                                      ![i].blob = Blob(chunksRef),
                                      ![i].upload = "pending"]
    /\ UNCHANGED << recording, transcript, summary, actionItems, mediaRecorderRef,
                    chunksRef, pendingMic, streams, saves, summaries, commands, delivered >>

(***************************************************************************)
(* Stop button: stopRecording.                                             *)
(***************************************************************************)
StopEnabled == recording

\* mediaRecorderRef.current && mediaRecorderRef.current.state !== 'inactive'
RecorderActive ==
    /\ mediaRecorderRef # 0
    /\ recorders[mediaRecorderRef].state # "inactive"

\* stopRecording with the Recording built on the click instead of in mr.onstop
StopRecording_BuildsBlob ==
    /\ StopEnabled
    /\ commands < MaxCommands
    /\ commands' = commands + 1
    /\ IF RecorderActive
       THEN /\ recorders' = [recorders EXCEPT ![mediaRecorderRef].state = "inactive",
                                              ![mediaRecorderRef].stopPending = TRUE,
                                              ![mediaRecorderRef].built = TRUE,
                                              ![mediaRecorderRef].blob = Blob(chunksRef)]
            /\ streams' = [streams EXCEPT ![mediaRecorderRef].live = FALSE,
                                          ![mediaRecorderRef].releases = @ + 1]
       ELSE UNCHANGED << recorders, streams >>
    /\ recording' = FALSE
    /\ status' = "stopped"
    /\ UNCHANGED << transcript, summary, actionItems, mediaRecorderRef, chunksRef,
                    pendingMic, saves, summaries, delivered >>

StopRecording ==
    /\ StopEnabled
    /\ commands < MaxCommands
    /\ commands' = commands + 1
    /\ IF RecorderActive
       THEN /\ recorders' = [recorders EXCEPT ![mediaRecorderRef].state = "inactive",
                                              ![mediaRecorderRef].stopPending = TRUE]
            /\ streams' = [streams EXCEPT ![mediaRecorderRef].live = FALSE,
                                          ![mediaRecorderRef].releases = @ + 1]
       ELSE UNCHANGED << recorders, streams >>
    /\ recording' = FALSE
    /\ status' = "stopped"
    /\ UNCHANGED << transcript, summary, actionItems, mediaRecorderRef, chunksRef,
                    pendingMic, saves, summaries, delivered >>

(***************************************************************************)
(* The transcription request of mr.onstop and its completion.              *)
(***************************************************************************)
ErrorBody == [has |-> FALSE, transcription |-> "", raw |-> "{\"detail\":\"failed\"}"]

\* What the fetch of /upload-audio can come back with: kind "json" is a response
\* whose body parses as JSON (ok is res.ok), kind "rejected" is fetch or
\* res.json() rejecting (a network or parse failure), message being err.message.
UploadResponses(i) ==
    { [kind |-> "json", ok |-> TRUE, json |-> b, message |-> ""] : b \in UploadBodies(i) }
    \cup { [kind |-> "json", ok |-> FALSE, json |-> ErrorBody, message |-> ""],
           [kind |-> "rejected", ok |-> FALSE, json |-> ErrorBody, message |-> "Failed to fetch"] }

\* the completion with the catch block's setStatus('error') left out
UploadResponds_NoErrorStatus(i, res) ==
    /\ recorders[i].upload = "pending"
    /\ recorders' = [recorders EXCEPT ![i].upload = "done"]
    /\ IF res.kind = "json"
       THEN /\ transcript' = TranscriptOf(res.json)
            /\ status' = "done"
       ELSE /\ transcript' = "Error uploading/transcribing: " \o res.message
            /\ status' = status
    /\ UNCHANGED << recording, summary, actionItems, mediaRecorderRef, chunksRef,
                    pendingMic, streams, saves, summaries, commands, delivered >>

\* the rest of mr.onstop after await fetch / await res.json()
UploadResponds(i, res) ==
    /\ recorders[i].upload = "pending"
    /\ recorders' = [recorders EXCEPT ![i].upload = "done"]
    /\ IF res.kind = "json"
       THEN /\ transcript' = TranscriptOf(res.json)
            /\ status' = "done"
       ELSE /\ transcript' = "Error uploading/transcribing: " \o res.message
            /\ status' = "error"
    /\ UNCHANGED << recording, summary, actionItems, mediaRecorderRef, chunksRef,
                    pendingMic, streams, saves, summaries, commands, delivered >>

(***************************************************************************)
(* Save to Google Drive button.                                            *)
(***************************************************************************)
\* disabled={!transcript || status === 'saving'}
SaveEnabled == Truthy(transcript) /\ status # "saving"

\* the Save handler without its checks of the transcript
Save_NoEmptyGuard ==
    /\ status # "saving"
    /\ commands < MaxCommands
    /\ status' = "saving"
    /\ saves' = saves \cup { [id |-> commands + 1, filename |-> "transcript.txt",
                               content |-> transcript] }
    /\ commands' = commands + 1
    /\ UNCHANGED << recording, transcript, summary, actionItems, mediaRecorderRef,
                    chunksRef, pendingMic, streams, recorders, summaries, delivered >>

\* onClick up to await fetch: JSON.stringify({ filename, content: transcript })
Save ==
    /\ SaveEnabled
    /\ Truthy(transcript)
    /\ commands < MaxCommands
    /\ status' = "saving"
    /\ saves' = saves \cup { [id |-> commands + 1, filename |-> "transcript.txt",
                               content |-> transcript] }
    /\ commands' = commands + 1
    /\ UNCHANGED << recording, transcript, summary, actionItems, mediaRecorderRef,
                    chunksRef, pendingMic, streams, recorders, summaries, delivered >>

\* The bodies /save-transcript answers with on success: { file: { id, webViewLink? } }
SaveBodies ==
    { [webViewLink |-> "https://drive/view", id |-> "file-id", raw |-> ""],
      [webViewLink |-> "", id |-> "file-id", raw |-> ""] }

SaveResponses ==
    { [kind |-> "json", ok |-> TRUE, json |-> b, message |-> ""] : b \in SaveBodies }
    \cup { [kind |-> "json", ok |-> FALSE,
            json |-> [webViewLink |-> "", id |-> "", raw |-> "{\"detail\":\"failed\"}"],
            message |-> ""],
           [kind |-> "rejected", ok |-> FALSE,
            json |-> [webViewLink |-> "", id |-> "", raw |-> ""],
            message |-> "Failed to fetch"] }

\* j.file.webViewLink || j.file.id
FileRef(j) == IF Truthy(j.webViewLink) THEN j.webViewLink ELSE j.id

\* what the completion appends to the transcript state
SaveAnnotation(res) ==
    IF res.kind = "json" /\ res.ok THEN "\n\n[Saved to Drive] " \o FileRef(res.json)
    ELSE IF res.kind = "json" THEN "\n\n[Save error] " \o Stringify(res.json)
    ELSE "\n\n[Save error] " \o res.message

\* the completion with the catch block's setStatus('save_error') left out
SaveResponds_NoCatchStatus(req, res) ==
    /\ req \in saves
    /\ saves' = saves \ {req}
    /\ status' = IF res.kind = "json" /\ res.ok THEN "saved"
                 ELSE IF res.kind = "json" THEN "save_error" ELSE status
    /\ transcript' = transcript \o SaveAnnotation(res)
    /\ UNCHANGED << recording, summary, actionItems, mediaRecorderRef, chunksRef,
                    pendingMic, streams, recorders, summaries, commands, delivered >>

\* the rest of the onClick after await fetch / await res.json()
SaveResponds(req, res) ==
    /\ req \in saves
    /\ saves' = saves \ {req}
    /\ status' = IF res.kind = "json" /\ res.ok THEN "saved" ELSE "save_error"
    /\ transcript' = transcript \o SaveAnnotation(res)
    /\ UNCHANGED << recording, summary, actionItems, mediaRecorderRef, chunksRef,
                    pendingMic, streams, recorders, summaries, commands, delivered >>

(***************************************************************************)
(* Summarize button.                                                       *)
(***************************************************************************)
\* disabled={!transcript || status === 'summarizing'}
SummarizeEnabled == Truthy(transcript) /\ status # "summarizing"

\* onClick up to await fetch: JSON.stringify({ text: transcript, num_sentences: 3 })
Summarize ==
    /\ SummarizeEnabled
    /\ Truthy(transcript)
    /\ commands < MaxCommands
    /\ status' = "summarizing"
    /\ summaries' = summaries \cup { [id |-> commands + 1, text |-> transcript] }
    /\ commands' = commands + 1
    /\ UNCHANGED << recording, transcript, summary, actionItems, mediaRecorderRef,
                    chunksRef, pendingMic, streams, recorders, saves, delivered >>

\* the summary the service computes of a text
SummaryOf(text) == "summary of <" \o text \o ">"

\* The bodies /summarize answers with on success: { summary?, action_items? }
SummarizeBodies(text) ==
    { [summary |-> SummaryOf(text), hasItems |-> TRUE, action_items |-> << "buy milk" >>, raw |-> ""],
      [summary |-> "", hasItems |-> TRUE, action_items |-> << "buy milk", "call bob" >>, raw |-> ""],
      [summary |-> "", hasItems |-> FALSE, action_items |-> << >>, raw |-> "{}"] }

SummarizeResponses(text) ==
    { [kind |-> "json", ok |-> TRUE, json |-> b, message |-> ""] : b \in SummarizeBodies(text) }
    \cup { [kind |-> "json", ok |-> FALSE,
            json |-> [summary |-> "", hasItems |-> FALSE, action_items |-> << >>,
                      raw |-> "{\"detail\":\"failed\"}"],
            message |-> ""],
           [kind |-> "rejected", ok |-> FALSE,
            json |-> [summary |-> "", hasItems |-> FALSE, action_items |-> << >>, raw |-> ""],
            message |-> "Failed to fetch"] }

\* the completion clearing the action items when the request fails
SummarizeResponds_ClearsItems(req, res) ==
    /\ req \in summaries
    /\ summaries' = summaries \ {req}
    /\ IF res.kind = "json" /\ res.ok
       THEN /\ summary' = (IF Truthy(res.json.summary) THEN res.json.summary ELSE "")
            /\ actionItems' = (IF res.json.hasItems THEN res.json.action_items ELSE << >>)
            /\ status' = "summarized"
       ELSE /\ summary' = "Error summarizing: " \o
                          (IF res.kind = "json" THEN Stringify(res.json) ELSE res.message)
            /\ actionItems' = << >>
            /\ status' = "summary_error"
    /\ UNCHANGED << recording, transcript, mediaRecorderRef, chunksRef, pendingMic,
                    streams, recorders, saves, commands, delivered >>

\* the rest of the onClick after await fetch / await res.json()
SummarizeResponds(req, res) ==
    /\ req \in summaries
    /\ summaries' = summaries \ {req}
    /\ IF res.kind = "json" /\ res.ok
       THEN /\ summary' = (IF Truthy(res.json.summary) THEN res.json.summary ELSE "")
            /\ actionItems' = (IF res.json.hasItems THEN res.json.action_items ELSE << >>)
            /\ status' = "summarized"
       ELSE /\ summary' = "Error summarizing: " \o
                          (IF res.kind = "json" THEN Stringify(res.json) ELSE res.message)
            /\ actionItems' = actionItems
            /\ status' = "summary_error"
    /\ UNCHANGED << recording, transcript, mediaRecorderRef, chunksRef, pendingMic,
                    streams, recorders, saves, commands, delivered >>

(***************************************************************************)
(* The event loop runs one handler at a time, in any order.                *)
(***************************************************************************)
Recorders == 1..Len(recorders)

Next ==
    \/ StartRecording
    \/ MicDenied
    \/ MicGranted
    \/ RecorderCtorThrows
    \/ RecorderStartThrows
    \/ \E i \in Recorders, size \in ChunkSizes : DataAvailable(i, size)
    \/ StopRecording
    \/ \E i \in Recorders : OnStop(i)
    \/ \E i \in Recorders : \E res \in UploadResponses(i) : UploadResponds(i, res)
    \/ Save
    \/ \E req \in saves, res \in SaveResponses : SaveResponds(req, res)
    \/ Summarize
    \/ \E req \in summaries : \E res \in SummarizeResponses(req.text) : SummarizeResponds(req, res)

Spec == Init /\ [][Next]_vars

(***************************************************************************)
(* Vocabulary of the properties.                                           *)
(***************************************************************************)
Streams == 1..Len(streams)

\* a capture is live: a recorder is recording
CaptureLive == \E i \in Recorders : recorders[i].state = "recording"

UploadOutstanding == \E i \in Recorders : recorders[i].upload = "pending"

LiveStreams == { i \in Streams : streams[i].live }

\* no start is awaiting the device and the Stop command is disabled
Quiescent == pendingMic = 0 /\ ~StopEnabled

SaveCompletes == \E req \in saves, res \in SaveResponses : SaveResponds(req, res)

SummarizeCompletes ==
    \E req \in summaries : \E res \in SummarizeResponses(req.text) : SummarizeResponds(req, res)

\* an operation failed: the transport failed, the body did not parse, or the
\* endpoint answered with a non-success status
Failed(res) == res.kind # "json" \/ ~res.ok

PersistStatuses == {"saving", "saved", "save_error"}

SummarizeStatuses == {"summarizing", "summarized", "summary_error"}

\* the non-empty chunks a recorder delivered, in delivery order
NonEmpty(events) == SelectSeq(events, LAMBDA c : c.size > 0)

(***************************************************************************)
(* C1: status is consistent with the outstanding asynchronous operations:  *)
(* 'recording' while a capture is live, 'uploading' while a transcription  *)
(* upload is outstanding, 'saving' while a persist request is outstanding, *)
(* 'summarizing' while a summarize request is outstanding.                 *)
(***************************************************************************)
C1_StatusConsistent ==
    /\ CaptureLive => status = "recording"
    /\ UploadOutstanding => status = "uploading"
    /\ saves # {} => status = "saving"
    /\ summaries # {} => status = "summarizing"

(***************************************************************************)
(* C2: every acquired stream is released exactly once; at a quiescent      *)
(* state the number of acquisitions equals the number of releases.         *)
(***************************************************************************)
C2_AcquireReleasePaired ==
    /\ \A i \in Streams : streams[i].releases <= 1
    /\ Quiescent => \A i \in Streams : streams[i].releases = 1 /\ ~streams[i].live

(***************************************************************************)
(* C3: at most one device stream is live in every reachable state.         *)
(***************************************************************************)
C3_AtMostOneLiveStream == Cardinality(LiveStreams) <= 1

(***************************************************************************)
(* C4: the Stop command takes effect only when status is exactly           *)
(* 'recording', and the Record command never takes effect while status is  *)
(* 'recording'.                                                            *)
(***************************************************************************)
C4_CommandsGatedByStatus ==
    [][ /\ StopRecording => status = "recording"
        /\ StartRecording => status # "recording" ]_vars

(***************************************************************************)
(* C5: immediately after start(), transcript, summary and actionItems are  *)
(* all empty.                                                              *)
(***************************************************************************)
C5_StartResetsSession ==
    [][ StartRecording => transcript' = "" /\ summary' = "" /\ actionItems' = << >> ]_vars

(***************************************************************************)
(* C6: never two persist requests and never two summarize requests         *)
(* outstanding at once.                                                    *)
(***************************************************************************)
C6_OneRequestOfAKind == Cardinality(saves) <= 1 /\ Cardinality(summaries) <= 1

(***************************************************************************)
(* C7: the start or completion of a summarize never overwrites the persist *)
(* state that status shows (saving, saved, save_error), and the start or   *)
(* completion of a persist never overwrites the summarize state.           *)
(***************************************************************************)
C7_PersistSummarizeIndependent ==
    [][ /\ (Summarize \/ SummarizeCompletes) /\ status \in PersistStatuses
               => status' = status
        /\ (Save \/ SaveCompletes) /\ status \in SummarizeStatuses
               => status' = status ]_vars

(***************************************************************************)
(* C8: the completion of a persist leaves the stored transcript, the value *)
(* later persist and summarize requests send, unchanged.                   *)
(***************************************************************************)
C8_PersistKeepsTranscript == [][ SaveCompletes => transcript' = transcript ]_vars

(***************************************************************************)
(* C9: every failed operation ends in its own error status: a device       *)
(* failure in mic_error, a failed upload in error, a failed persist in     *)
(* save_error, a failed summarize in summary_error.                        *)
(***************************************************************************)
C9_FailuresMapToErrorStatus ==
    [][ /\ (MicDenied \/ RecorderCtorThrows \/ RecorderStartThrows) => status' = "mic_error"
        /\ \A i \in Recorders : \A res \in UploadResponses(i) :
               UploadResponds(i, res) /\ Failed(res) => status' = "error"
        /\ \A req \in saves, res \in SaveResponses :
               SaveResponds(req, res) /\ Failed(res) => status' = "save_error"
        /\ \A req \in summaries : \A res \in SummarizeResponses(req.text) :
               SummarizeResponds(req, res) /\ Failed(res) => status' = "summary_error" ]_vars

(***************************************************************************)
(* C10: the Recording a recorder's stop handler builds is the ordered      *)
(* concatenation of the non-empty chunks that recorder delivered.          *)
(***************************************************************************)
C10_RecordingIsOwnChunks ==
    \A i \in Recorders :
        recorders[i].built => recorders[i].blob = NonEmpty(recorders[i].events)

(***************************************************************************)
(* The event loop delivers every recorder's stop event and every answer of *)
(* the transcription request: the specification of the liveness claims.    *)
(***************************************************************************)
StopEventDelivered == \E i \in Recorders : OnStop(i)

UploadCompletes == \E i \in Recorders : \E res \in UploadResponses(i) : UploadResponds(i, res)

LiveSpec == Spec /\ WF_vars(StopEventDelivered) /\ WF_vars(UploadCompletes)

\* the chunks of recorder i in a buffer
ChunksOf(i, buffer) == SelectSeq(buffer, LAMBDA c : c.rec = i)

(***************************************************************************)
(* C11: a recorder's Recording is built only in the step that handles its  *)
(* stop event, never in the step of the Stop command, and once it is built *)
(* the recorder delivers no further chunk and the buffer receives no       *)
(* further chunk of that recorder.                                         *)
(***************************************************************************)
C11_BuiltOnStopEventOnly ==
    [][ \A i \in Recorders :
          /\ (~recorders[i].built /\ recorders'[i].built)
                 => recorders[i].stopPending /\ ~recorders'[i].stopPending /\ ~StopRecording
          /\ recorders[i].built
                 => /\ recorders'[i].built
                    /\ recorders'[i].blob = recorders[i].blob
                    /\ recorders'[i].events = recorders[i].events
                    /\ Len(ChunksOf(i, chunksRef')) <= Len(ChunksOf(i, chunksRef)) ]_vars

\* a Recording was built from a chunk delivered between Stop and the stop event
C11_Witness ==
    \E i \in Recorders : recorders[i].built /\ recorders[i].blob # << >>
                         /\ recorders[i].events # << >>

(***************************************************************************)
(* C12: the Stop command sets status 'stopped'; a recorder's stop event    *)
(* comes only after the Stop that inactivated it and sets 'uploading'; the *)
(* answer of its transcription request comes only after that and sets      *)
(* 'done' or 'error'; and no recorder's stop event or answer stays pending *)
(* forever, so every stopped recording reaches 'done' or 'error'.          *)
(***************************************************************************)
UploadWorkPending ==
    \E i \in Recorders : recorders[i].stopPending \/ recorders[i].upload = "pending"

C12_StopLeadsToDone ==
    /\ [][ /\ StopRecording => status' = "stopped"
           /\ \A i \in Recorders :
                  /\ OnStop(i) => /\ recorders[i].state = "inactive"
                                  /\ ~streams[i].live
                                  /\ status' = "uploading"
                  /\ (recorders[i].upload = "pending" /\ recorders'[i].upload = "done")
                         => recorders[i].built /\ status' \in {"done", "error"} ]_vars
    /\ []<>(~UploadWorkPending)

\* a stopped recording whose transcription was applied
C12_Witness ==
    /\ status = "done"
    /\ \E i \in Recorders : recorders[i].upload = "done" /\ recorders[i].built

(***************************************************************************)
(* C13: when the transcription request resolves with a JSON body, status   *)
(* becomes 'done' and the transcript becomes the body's transcription      *)
(* field if the field is present, the stringified body if it is absent.    *)
(***************************************************************************)
C13_TranscriptFromField ==
    [][ \A i \in Recorders : \A res \in UploadResponses(i) :
          UploadResponds(i, res) /\ res.kind = "json"
              => /\ status' = "done"
                 /\ transcript' = IF res.json.has THEN res.json.transcription
                                  ELSE Stringify(res.json) ]_vars

(***************************************************************************)
(* C14: while the transcript is empty neither Save nor Summarize takes     *)
(* effect: no step is a run of either handler, and no request is issued.   *)
(***************************************************************************)
C14_EmptyTranscriptNoRequest ==
    [][ ~Truthy(transcript)
          => /\ ~Save /\ ~Summarize
             /\ saves' \subseteq saves
             /\ summaries' \subseteq summaries ]_vars

\* the session after a recording was stopped: the transcript is empty, both
\* commands are disabled and nothing was requested
C14_Witness ==
    /\ ~Truthy(transcript) /\ status = "uploading"
    /\ ~SaveEnabled /\ ~SummarizeEnabled
    /\ saves = {} /\ summaries = {}

(***************************************************************************)
(* C15: the Record command cancels no persist or summarize request in      *)
(* flight; a request leaves flight only by its completion, which writes    *)
(* its status and its result into the values current at that time.         *)
(***************************************************************************)
C15_StartCancelsNothing ==
    [][ /\ StartRecording => saves' = saves /\ summaries' = summaries
        /\ \A req \in saves : req \notin saves'
               => /\ status' \in {"saved", "save_error"}
                  /\ \E res \in SaveResponses : transcript' = transcript \o SaveAnnotation(res)
        /\ \A req \in summaries : req \notin summaries'
               => /\ status' \in {"summarized", "summary_error"}
                  /\ \E res \in SummarizeResponses(req.text) :
                         summary' \in {res.json.summary, "Error summarizing: " \o Stringify(res.json),
                                       "Error summarizing: " \o res.message} ]_vars

\* the summary of the earlier transcript is shown while a newer recording,
\* whose transcript is still empty, is live
C15_Witness ==
    /\ recording /\ CaptureLive /\ transcript = ""
    /\ status = "summarized"
    /\ \E old \in {MicErrorText} \cup { TextOf(i) : i \in Recorders } : summary = SummaryOf(old)

(***************************************************************************)
(* C16: in every state with an error status and no live capture the Record *)
(* command is enabled, and Save and Summarize are enabled whenever the     *)
(* transcript is non-empty and no request of their own kind is in flight.  *)
(***************************************************************************)
ErrorStatuses == {"mic_error", "error", "save_error", "summary_error"}

C16_UsableAfterError ==
    /\ (status \in ErrorStatuses /\ ~CaptureLive) => RecordEnabled
    /\ (Truthy(transcript) /\ saves = {}) => SaveEnabled
    /\ (Truthy(transcript) /\ summaries = {}) => SummarizeEnabled
    /\ status \in ErrorStatuses => RecordEnabled \/ StopEnabled

\* after a failed upload every retry is open
C16_Witness ==
    /\ status = "error" /\ ~CaptureLive /\ Truthy(transcript)
    /\ saves = {} /\ summaries = {}

(***************************************************************************)
(* C17: a successful summarize sets summary to the response's summary      *)
(* (empty if absent), actionItems to its action_items in order (empty if   *)
(* absent) and status to 'summarized'; a failed one sets status            *)
(* 'summary_error' and leaves actionItems unchanged.                       *)
(***************************************************************************)
C17_SummarizeResult ==
    [][ \A req \in summaries : \A res \in SummarizeResponses(req.text) :
          SummarizeResponds(req, res)
              => IF ~Failed(res)
                 THEN /\ summary' = res.json.summary
                      /\ actionItems' = res.json.action_items
                      /\ status' = "summarized"
                 ELSE /\ status' = "summary_error"
                      /\ actionItems' = actionItems ]_vars

\* a summary with its action item
C17_Witness ==
    /\ status = "summarized"
    /\ actionItems = << "buy milk" >>
    /\ Truthy(summary)

(***************************************************************************)
(* C18: status names an in-progress network operation only while one is    *)
(* outstanding: 'uploading' only with a transcription request pending,     *)
(* 'saving' only with a persist request in flight, 'summarizing' only with *)
(* a summarize request in flight.                                          *)
(***************************************************************************)
C18_InProgressMeansOutstanding ==
    /\ status = "uploading" => UploadOutstanding
    /\ status = "saving" => saves # {}
    /\ status = "summarizing" => summaries # {}

\* 'saving' shown while a summarize request is in flight as well
C18_Witness == status = "saving" /\ saves # {} /\ summaries # {}

(***************************************************************************)
(* C19: a Recording holds only chunks of its own recorder, and the buffer  *)
(* holds only chunks of the recorder started last.                         *)
(***************************************************************************)
C19_NoForeignChunks ==
    /\ \A i \in Recorders :
           recorders[i].built => ChunksOf(i, recorders[i].blob) = recorders[i].blob
    /\ mediaRecorderRef # 0 => ChunksOf(mediaRecorderRef, chunksRef) = chunksRef

(***************************************************************************)
(* C20: the answer of an earlier recording's transcription request is not  *)
(* applied once a newer recording has been started: it changes neither the *)
(* transcript nor the status.                                              *)
(***************************************************************************)
NewerStarted(i) == pendingMic > 0 \/ i < Len(recorders)

C20_StaleUploadNotApplied ==
    [][ \A i \in Recorders : \A res \in UploadResponses(i) :
          UploadResponds(i, res) /\ NewerStarted(i)
              => transcript' = transcript /\ status' = status ]_vars

====
